---------------------------- MODULE Spec2Model ----------------------------
(***************************************************************************)
(* Model of the unicode-gacha library (src/lib/unicode.ts) and of the page *)
(* that drives it (src/app/page.tsx).                                      *)
(*                                                                         *)
(* JavaScript strings are TLA+ strings; a value that may be `undefined`    *)
(* (a missing array element) is a sequence of length 0 (undefined) or 1.   *)
(* The Index is observed on the code points of CodePoints: a loop over an  *)
(* interval of ids is modelled on the ids of the interval that belong to   *)
(* CodePoints, single writes are modelled as they are.                     *)
(***************************************************************************)
EXTENDS Integers, Sequences, FiniteSets, TLC

VARIABLES
    unicodeData,   \* module-level `let unicodeData`: 0 (undefined) or a reference
    indexes,       \* the UnicodeData objects created so far, by reference 1..Len
    pools,         \* the Pool objects created so far
    calls,         \* the asynchronous calls in flight
    fs,            \* the data files the loaders retrieve
    loader,        \* the activation record of the loop of addUnicodeData
    page,          \* the state of the page component and of its handleDraw
    ret            \* the result of the last synchronous call

vars == <<unicodeData, indexes, pools, calls, fs, loader, page, ret>>

\* The state of the page as its useState calls initialise it; pool = 0 is
\* null.  pc, i and randomDisplay are the activation record of handleDraw.
InitialPage ==
    [pool |-> 0, isDrawing |-> FALSE, isLoading |-> TRUE, isAnimating |-> FALSE,
     character |-> <<"?">>, characterName |-> <<"Click Draw to start">>,
     characterId |-> <<"\\u2014">>, cardColor |-> <<"#555555">>,
     cardDescription |-> <<"">>,
     pc |-> "idle", i |-> 0, randomDisplay |-> <<>>]

\* ------------------------------------------------------------------ bounds

MaxLines == 3

MaxItems == 3

MaxWeight == 1

MaxAmount == 2

\* ------------------------------------------------------- JavaScript strings

\* The result of parseInt on a string with no leading digits.
NaN == -1

Undefined == <<>>

Def(s) == <<s>>

IsDefined(v) == v # Undefined

CharAt(s, i) == SubSeq(s, i, i)

Min(a, b) == IF a < b THEN a ELSE b

Max(a, b) == IF a > b THEN a ELSE b

\* String.prototype.startsWith
StartsWith(s, p) == Len(s) >= Len(p) /\ SubSeq(s, 1, Len(p)) = p

\* String.prototype.endsWith
EndsWith(s, p) == Len(s) >= Len(p) /\ SubSeq(s, Len(s) - Len(p) + 1, Len(s)) = p

\* String.prototype.slice(start, end) with start >= 0 and end < 0
SliceNeg(s, start, end) ==
    LET to   == Max(Len(s) + end, 0)
        from == Min(start, Len(s))
    IN  IF from >= to THEN "" ELSE SubSeq(s, from + 1, to)

\* String.prototype.slice(start)
SliceFrom(s, start) == SubSeq(s, Min(start, Len(s)) + 1, Len(s))

\* String.prototype.indexOf(p, i - 1) + 1: the position of the first
\* occurrence of p in s at or after position i, or 0
RECURSIVE Find(_, _, _)
Find(s, p, i) ==
    IF i + Len(p) - 1 > Len(s) THEN 0
    ELSE IF SubSeq(s, i, i + Len(p) - 1) = p THEN i
    ELSE Find(s, p, i + 1)

\* String.prototype.includes
Includes(s, p) == Find(s, p, 1) > 0

\* String.prototype.split(sep) for a non-empty separator
RECURSIVE Split(_, _)
Split(s, sep) ==
    LET i == Find(s, sep, 1)
    IN  IF i = 0 THEN <<s>>
        ELSE <<SubSeq(s, 1, i - 1)>> \o Split(SubSeq(s, i + Len(sep), Len(s)), sep)

\* String.prototype.replace(p, r) for a string p: the first occurrence only
Replace(s, p, r) ==
    LET i == Find(s, p, 1)
    IN  IF i = 0 THEN s
        ELSE SubSeq(s, 1, i - 1) \o r \o SubSeq(s, i + Len(p), Len(s))

\* An array element: undefined past the end
At(list, i) == IF i >= 1 /\ i <= Len(list) THEN Def(list[i]) ELSE Undefined

LowerCase == "abcdefghijklmnopqrstuvwxyz"

UpperCase == "ABCDEFGHIJKLMNOPQRSTUVWXYZ"

HexDigits == "0123456789abcdef"

HexDigitsUpper == "0123456789ABCDEF"

\* The upper-case letter of each lower-case letter
UpperOf ==
    [c \in {CharAt(LowerCase, i) : i \in 1..Len(LowerCase)} |->
        CharAt(UpperCase, Find(LowerCase, c, 1))]

\* String.prototype.toUpperCase
RECURSIVE ToUpperCase(_)
ToUpperCase(s) ==
    IF s = "" THEN ""
    ELSE LET c == CharAt(s, 1)
         IN  (IF c \in DOMAIN UpperOf THEN UpperOf[c] ELSE c) \o ToUpperCase(Tail(s))

\* String.prototype.trim() === "" for the white space of the data files
RECURSIVE IsBlank(_)
IsBlank(s) ==
    \/ s = ""
    \/ /\ CharAt(s, 1) \in {" ", "\t", "\r"}
       /\ IsBlank(Tail(s))

\* The value of each hexadecimal digit, of either case
DigitValue ==
    [c \in {CharAt(HexDigits, i) : i \in 1..16} \cup {CharAt(HexDigitsUpper, i) : i \in 1..16} |->
        Max(Find(HexDigits, c, 1), Find(HexDigitsUpper, c, 1)) - 1]

\* The value of a hexadecimal digit, or NaN
HexValue(c) == IF c \in DOMAIN DigitValue THEN DigitValue[c] ELSE NaN

\* The value of the longest prefix of hexadecimal digits of s, from acc
RECURSIVE ParseHexPrefix(_, _)
ParseHexPrefix(s, acc) ==
    IF s = "" \/ HexValue(CharAt(s, 1)) = NaN THEN acc
    ELSE ParseHexPrefix(Tail(s), (IF acc = NaN THEN 0 ELSE acc) * 16 + HexValue(CharAt(s, 1)))

RECURSIVE SkipWhite(_)
SkipWhite(s) ==
    IF s # "" /\ CharAt(s, 1) \in {" ", "\t", "\r"} THEN SkipWhite(Tail(s)) ELSE s

\* parseInt(v, 16) of an unsigned text: leading white space and an optional
\* 0x are skipped, the digits up to the first other character are read, and
\* a text with no digit (also `undefined`) gives NaN.
ParseInt16(v) ==
    IF ~IsDefined(v) THEN NaN
    ELSE LET t == SkipWhite(v[1])
             u == IF StartsWith(t, "0x") \/ StartsWith(t, "0X") THEN SliceFrom(t, 2) ELSE t
         IN  ParseHexPrefix(u, NaN)

\* Number.prototype.toString(16) of a non-negative integer
RECURSIVE ToString16(_)
ToString16(n) ==
    IF n < 16 THEN CharAt(HexDigits, n + 1)
    ELSE ToString16(n \div 16) \o CharAt(HexDigits, (n % 16) + 1)

\* A template literal's rendering of a value that may be undefined
Interpolate(v) == IF IsDefined(v) THEN v[1] ELSE "undefined"


\* ------------------------------------------------------------ UnicodeData

\* The code points on which the Index is observed.
HangulBase == 44032

\* The last of the 19*21*28 syllables
HangulLast == HangulBase + (19 * 21 * 28) - 1

CodePoints ==
    {0, 1, 65, 66} \cup (19968..19970)
    \cup (HangulBase..(HangulBase + 1)) \cup ((HangulLast - 1)..(HangulLast + 1))
    \cup {57344, 63743, 65535, 65536}

\* The ids of an interval on which the model observes the Index
Observed(first, last) == {id \in CodePoints : first <= id /\ id <= last}

\* new UnicodeData(): data, blocks and cjkData are empty.  loaded is history:
\* the loaders that have run to completion on the object.
EmptyIndex == [data |-> <<>>, blocks |-> <<>>, cjkData |-> <<>>, loaded |-> {}]

\* this.data[id] = record, and this.cjkData[id] = record
Put(map, id, rec) == [k \in (DOMAIN map) \cup {id} |-> IF k = id THEN rec ELSE map[k]]

\* JavaScript's remainder: the sign of the dividend
JsRem(a, b) == IF a >= 0 THEN a % b ELSE 0 - ((0 - a) % b)

initials ==
    <<"g", "gg", "n", "d", "dd", "r", "m", "b", "bb", "s", "ss", "", "j", "jj",
      "ch", "k", "t", "p", "h">>

vowels ==
    <<"a", "ae", "ya", "yae", "eo", "e", "yeo", "ye", "o", "wa", "wae", "oe", "yo",
      "u", "weo", "we", "wi", "yu", "eu", "ui", "i">>

finals ==
    <<"", "g", "gg", "gs", "n", "nj", "nh", "d", "l", "lg", "lm", "lb", "ls", "lt",
      "lp", "lh", "m", "b", "bs", "s", "ss", "ng", "j", "ch", "k", "t", "p", "h">>

HangulOrder(id) == id - HangulBase

InitialIndex(id) == HangulOrder(id) \div 588

\* A vowel index that divides by the number of vowels
VowelIndex_ByVowels(id) == JsRem(HangulOrder(id), 588) \div 21

VowelIndex(id) == JsRem(HangulOrder(id), 588) \div 28

FinalIndex(id) == JsRem(HangulOrder(id), 28)

getHangulSyllableName(id) ==
    LET initial == At(initials, InitialIndex(id) + 1)
        vowel   == At(vowels, VowelIndex(id) + 1)
        final   == At(finals, FinalIndex(id) + 1)
    IN  Interpolate(initial) \o Interpolate(vowel) \o Interpolate(final)

\* parseCodePoint: the fields of a line by position (of the fifteen, the id,
\* the name and the general category are kept)
parseCodePoint(line) ==
    LET codePointList == Split(line, ";")
    IN  [id               |-> ParseInt16(At(codePointList, 1)),
         name             |-> At(codePointList, 2),
         general_category |-> At(codePointList, 3)]

\* The name addRange gives id
RangeName(rangeName, id) ==
    IF Includes(rangeName, "Hangul")
    THEN ToUpperCase(rangeName \o " " \o getHangulSyllableName(id))
    ELSE ToUpperCase(rangeName \o " " \o ToString16(id))

\* A loop that stops before the last id of the range
RangeIds_WithoutLast(rangeFirst, rangeLast) == Observed(rangeFirst, rangeLast - 1)

\* The ids the loop of addRange visits
RangeIds(rangeFirst, rangeLast) == Observed(rangeFirst, rangeLast)

addRange(data, rangeFirst, rangeLast, rangeName, codePointData) ==
    LET ids == RangeIds(rangeFirst, rangeLast)
    IN  [k \in (DOMAIN data) \cup ids |->
            IF k \in ids
            THEN [codePointData EXCEPT !.id = k, !.name = Def(RangeName(rangeName, k))]
            ELSE data[k]]

\* The test that skips a line outside the scan bound; a comparison with NaN
\* is false
OutOfBound(id, rangeStart, rangeEnd) ==
    id # NaN /\ (id < rangeStart \/ id > rangeEnd)

\* The tag of a "Last>" name: name.slice(1, -7)
StripTag(name) == SliceNeg(name, 1, -7)

\* A test that takes every tag for the tag of a range to expand
IsExpandedTag_AnyTag(rangeName) == TRUE

IsExpandedTag(rangeName) == Includes(rangeName, "CJK") \/ Includes(rangeName, "Hangul")

\* One iteration of the loop of addUnicodeData on st = [data, rangeFirst,
\* threw]: threw is set when the iteration raises a TypeError (a property
\* of undefined is read), which ends the loop.
ProcessLine(st, line, rangeStart, rangeEnd) ==
    LET codePointData == parseCodePoint(line)
        id == codePointData.id
    IN  IF StartsWith(line, "#") THEN st
        ELSE IF OutOfBound(id, rangeStart, rangeEnd) THEN st
        ELSE IF id = NaN THEN st
        ELSE IF ~IsDefined(codePointData.name) THEN [st EXCEPT !.threw = TRUE]
        ELSE LET name == codePointData.name[1]
             IN  IF EndsWith(name, ">")
                 THEN IF EndsWith(name, "First>")
                      THEN [st EXCEPT !.rangeFirst = id]
                      ELSE IF EndsWith(name, "Last>") /\ IsExpandedTag(StripTag(name))
                      THEN [st EXCEPT !.data =
                               addRange(st.data, st.rangeFirst, id, StripTag(name),
                                        codePointData)]
                      ELSE st
                 ELSE [st EXCEPT !.data = Put(st.data, id, codePointData)]

\* The loop of addUnicodeData from line i on
RECURSIVE ProcessLines(_, _, _, _, _)
ProcessLines(st, lines, i, rangeStart, rangeEnd) ==
    IF i > Len(lines) \/ st.threw THEN st
    ELSE CHOOSE r \in {ProcessLines(next, lines, i + 1, rangeStart, rangeEnd) :
                          next \in {ProcessLine(st, lines[i], rangeStart, rangeEnd)}} : TRUE

\* addUnicodeData once the file's text is there: lines = text.split("\n")
addUnicodeData(data, lines, rangeStart, rangeEnd) ==
    ProcessLines([data |-> data, rangeFirst |-> 0, threw |-> FALSE], lines, 1,
                 rangeStart, rangeEnd)

getCodePoint(index, id) == IF id \in DOMAIN index.data THEN Def(index.data[id]) ELSE Undefined


\* The ASCII characters of codes 32 to 95, and of codes 97 to 126
AsciiLow == " !\"#$%&'()*+,-./0123456789:;<=>?@ABCDEFGHIJKLMNOPQRSTUVWXYZ[\\]^_"

AsciiHigh == "abcdefghijklmnopqrstuvwxyz{|}~"

\* String.prototype.charCodeAt(0) of a one-character string
CharCodeOf ==
    [c \in {CharAt(AsciiLow, i) : i \in 1..Len(AsciiLow)}
           \cup {CharAt(AsciiHigh, i) : i \in 1..Len(AsciiHigh)} |->
        IF Find(AsciiLow, c, 1) > 0 THEN 31 + Find(AsciiLow, c, 1)
        ELSE 96 + Find(AsciiHigh, c, 1)]

\* A JavaScript number that holds an integer n is kept as [hi, lo] with
\* n = hi * 65536 + lo and 0 <= lo < 65536
Num(hi, lo) == [hi |-> hi + (lo \div 65536), lo |-> lo % 65536]

\* ToInt32: the number modulo 2^32, as a signed 32-bit integer
ToInt32(n) ==
    LET hi16 == n.hi % 65536
    IN  [hi |-> IF hi16 >= 32768 THEN hi16 - 65536 ELSE hi16, lo |-> n.lo]

\* hash << 5
ShiftLeft5(n) == ToInt32(Num(ToInt32(n).hi * 32, n.lo * 32))

\* ((hash << 5) - hash) + char.charCodeAt(0)
HashStep(hash, char) ==
    Num(ShiftLeft5(hash).hi - hash.hi, (ShiftLeft5(hash).lo - hash.lo) + CharCodeOf[char])

\* name.split("").reduce(HashStep, hash).  (Here and below, h \in {e} binds
\* h to the value of e, so that a loop's next iteration starts from a value.)
RECURSIVE HashFrom(_, _)
HashFrom(hash, name) ==
    IF name = "" THEN hash
    ELSE CHOOSE r \in {HashFrom(h, t) : h \in {HashStep(hash, CharAt(name, 1))},
                                        t \in {Tail(name)}} : TRUE

\* mod(n, 0xFFFFFF) = (n % m + m) % m; 2^24 = 1 modulo 0xFFFFFF
Mod24(n) == ((n.hi \div 256) + ((n.hi % 256) * 65536) + n.lo) % 16777215

\* String.prototype.padStart(length, "0")
RECURSIVE PadStart0(_, _)
PadStart0(s, length) == IF Len(s) >= length THEN s ELSE PadStart0("0" \o s, length)

\* The colour of a block, from the hash of its name
BlockColor(name) ==
    CHOOSE color \in {"#" \o PadStart0(ToString16(n), 6) :
                         n \in {Mod24(HashFrom(Num(0, 0), name))}} : TRUE

parseBlock(line) ==
    LET blockList  == Split(line, ";")
        blockRange == Split(blockList[1], "..")
    IN  [id    |-> 0,
         start |-> ParseInt16(At(blockRange, 1)),
         end   |-> ParseInt16(At(blockRange, 2)),
         name  |-> At(blockList, 2),
         color |-> ""]

\* line.startsWith("#") || line.trim() === ""
IsSkipped(line) == StartsWith(line, "#") \/ IsBlank(line)

\* One iteration of the loop of loadBlocks on st = [blocks, blockID, threw];
\* the hash of a name that is undefined throws
LoadBlockLine(st, line) ==
    LET blockData == parseBlock(line)
    IN  IF IsSkipped(line) THEN st
        ELSE IF ~IsDefined(blockData.name) THEN [st EXCEPT !.threw = TRUE]
        ELSE [st EXCEPT
                 !.blocks = Append(@, [blockData EXCEPT
                                          !.id = st.blockID,
                                          !.color = BlockColor(blockData.name[1])]),
                 !.blockID = @ + 1]

RECURSIVE LoadBlockLines(_, _, _)
LoadBlockLines(st, lines, i) ==
    IF i > Len(lines) \/ st.threw THEN st
    ELSE CHOOSE r \in {LoadBlockLines(next, lines, i + 1) :
                          next \in {LoadBlockLine(st, lines[i])}} : TRUE

\* loadBlocks once the file's text is there: the loop pushes onto this.blocks
loadBlocks(blocks, lines) ==
    LoadBlockLines([blocks |-> blocks, blockID |-> 0, threw |-> FALSE], lines, 1)

parseCJKReading(line) ==
    LET cjkReadingList == Split(line, "\t")
    IN  [id      |-> ParseInt16(Def(Replace(cjkReadingList[1], "U+", ""))),
         reading |-> [field |-> At(cjkReadingList, 2), text |-> At(cjkReadingList, 3)]]

\* A loop that puts the reading of a line before those of the lines above
LoadCJKLine_Prepend(cjkData, line) ==
    LET parsed == parseCJKReading(line)
        id     == parsed.id
        old    == IF id \in DOMAIN cjkData THEN cjkData[id] ELSE [readings |-> <<>>]
    IN  IF IsSkipped(line) THEN cjkData
        ELSE Put(cjkData, id, [readings |-> <<parsed.reading>> \o old.readings])

\* One iteration of the loop of loadCJKData
LoadCJKLine(cjkData, line) ==
    LET parsed == parseCJKReading(line)
        id     == parsed.id
        old    == IF id \in DOMAIN cjkData THEN cjkData[id] ELSE [readings |-> <<>>]
    IN  IF IsSkipped(line) THEN cjkData
        ELSE Put(cjkData, id, [readings |-> Append(old.readings, parsed.reading)])

RECURSIVE LoadCJKLines(_, _, _)
LoadCJKLines(cjkData, lines, i) ==
    IF i > Len(lines) THEN cjkData
    ELSE CHOOSE r \in {LoadCJKLines(next, lines, i + 1) :
                          next \in {LoadCJKLine(cjkData, lines[i])}} : TRUE

\* loadCJKData once the file's text is there: the loop adds to this.cjkData
loadCJKData(cjkData, lines) == LoadCJKLines(cjkData, lines, 1)

\* A scan whose test leaves out the end of the range
InBlock_EndExclusive(codePoint, block) ==
    /\ codePoint # NaN /\ block.start # NaN /\ block.end # NaN
    /\ codePoint >= block.start
    /\ codePoint < block.end

\* codePoint >= block.start && codePoint <= block.end; a comparison with NaN
\* is false
InBlock(codePoint, block) ==
    /\ codePoint # NaN /\ block.start # NaN /\ block.end # NaN
    /\ codePoint >= block.start
    /\ codePoint <= block.end

RECURSIVE FirstBlock(_, _, _)
FirstBlock(blocks, codePoint, i) ==
    IF i > Len(blocks) THEN Undefined
    ELSE IF InBlock(codePoint, blocks[i]) THEN Def(blocks[i])
    ELSE FirstBlock(blocks, codePoint, i + 1)

getBlock(index, codePoint) ==
    IF Len(index.blocks) = 0 THEN Undefined ELSE FirstBlock(index.blocks, codePoint, 1)

getCJKReading(index, id) ==
    IF id \notin DOMAIN index.cjkData THEN <<>> ELSE index.cjkData[id].readings

\* `${reading.field.slice(1)}: ${reading.text}`
ReadingLine(reading) == SliceFrom(reading.field[1], 1) \o ": " \o Interpolate(reading.text)

\* Array.prototype.join(sep)
RECURSIVE Join(_, _)
Join(list, sep) ==
    IF Len(list) = 0 THEN ""
    ELSE IF Len(list) = 1 THEN list[1]
    ELSE list[1] \o sep \o Join(Tail(list), sep)

\* block?.name || fallback: the fallback also for an empty name
BlockNameOr(block, fallback) ==
    IF IsDefined(block) /\ block[1].name[1] # "" THEN block[1].name[1] ELSE fallback

\* The description of getCardData
Description(codePointData, block, cjkReadings) ==
    "Name: " \o codePointData.name[1]
    \o "\nBlock: " \o BlockNameOr(block, "Unknown")
    \o "\n" \o Join([i \in 1..Len(cjkReadings) |-> ReadingLine(cjkReadings[i])], "\n")

\* getCardData(id): null for an unknown id; a TypeError when a reading has no
\* field; else the card, char being the UTF-16 code unit of the id
getCardData(index, id) ==
    LET codePointData == getCodePoint(index, id)
        cjkReadings   == getCJKReading(index, id)
        block         == getBlock(index, id)
    IN  IF ~IsDefined(codePointData) THEN [kind |-> "null"]
        ELSE IF \E i \in 1..Len(cjkReadings) : ~IsDefined(cjkReadings[i].field)
        THEN [kind |-> "throw"]
        ELSE [kind        |-> "card",
              id          |-> id,
              name        |-> codePointData[1].name[1],
              description |-> Description(codePointData[1], block, cjkReadings),
              char        |-> id % 65536,
              blockName   |-> BlockNameOr(block, ""),
              blockColor  |-> IF IsDefined(block) THEN block[1].color ELSE "#ffffff"]

\* No call of addUnicodeData is being followed by line
IdleLoader ==
    [status |-> "idle", pos |-> 0, rangeFirst |-> 0, rangeStart |-> 0, rangeEnd |-> 0]

\* ------------------------------------------------------------------- Pool

\* new Pool(unicodeDataParam): the Index given, or else the module-level one
\* if there is one, or else a new, empty Index that is not marked initialized.
\* own is the reference a new Index would get.
\* initializeCalls is history: the calls of initialize() on the pool.
NewPool(param, shared, own) ==
    [unicodeData            |-> IF param # 0 THEN param ELSE IF shared # 0 THEN shared ELSE own,
     unicodeDataInitialized |-> (param # 0 \/ shared # 0),
     items                  |-> <<>>,
     initializeCalls        |-> 0]

RECURSIVE SumWeights(_, _)
SumWeights(items, i) ==
    IF i > Len(items) THEN 0 ELSE items[i].weight + SumWeights(items, i + 1)

\* items.reduce((sum, item) => sum + item.weight, 0)
TotalWeight(items) == SumWeights(items, 1)

\* Math.random() * totalWeight, a value of [0, totalWeight), is observed by
\* its integer part: the weights being integers, each test of the loop has
\* the same outcome for a value and for its integer part.  It is 0 for a
\* total weight of 0.
RandomValues(items) ==
    IF TotalWeight(items) > 0 THEN 0..(TotalWeight(items) - 1) ELSE {0}

\* A test that also takes an item whose weight the random value equals
Selects_Inclusive(randomValue, item) == randomValue <= item.weight

\* The test of the inner loop of draw
Selects(randomValue, item) == randomValue < item.weight

\* The inner loop of draw from item i on: the item pushed, if any
RECURSIVE Scan(_, _, _)
Scan(items, i, randomValue) ==
    IF i > Len(items) THEN <<>>
    ELSE IF Selects(randomValue, items[i]) THEN <<items[i]>>
    ELSE Scan(items, i + 1, randomValue - items[i].weight)

RECURSIVE DrawFrom(_, _, _)
DrawFrom(items, randoms, i) ==
    IF i > Len(randoms) THEN <<>>
    ELSE Scan(items, 1, randoms[i]) \o DrawFrom(items, randoms, i + 1)

\* A draw that takes an amount <= 0 for one draw
draw_AtLeastOne(items, amount, randoms) ==
    IF Len(items) = 0 THEN <<>>
    ELSE DrawFrom(items, IF amount <= 0 THEN <<0>> ELSE randoms, 1)

\* draw(amount), randoms[i] being the random value of the i-th draw
draw(items, amount, randoms) ==
    IF Len(items) = 0 \/ amount <= 0 THEN <<>> ELSE DrawFrom(items, randoms, 1)

\* The random values a call of draw(amount) takes
RandomsOf(items, amount) ==
    IF Len(items) = 0 \/ amount <= 0 THEN {<<>>}
    ELSE [1..amount -> RandomValues(items)]

InitPool ==
    /\ indexes = <<EmptyIndex>>
    /\ pools = <<NewPool(1, 0, 0)>>
    /\ unicodeData = 0
    /\ calls = <<>>
    /\ fs = [unicode |-> <<>>, blocks |-> <<>>, cjk |-> <<>>]
    /\ loader = IdleLoader
    /\ page = InitialPage
    /\ ret = [op |-> "none"]

\* pool.addItem(item)
AddItem(p, item) ==
    /\ Len(pools[p].items) < MaxItems
    /\ pools' = [pools EXCEPT ![p].items = Append(@, item)]
    /\ ret' = [op |-> "addItem"]
    /\ UNCHANGED <<page, unicodeData, indexes, calls, fs, loader>>

\* pool.draw(amount)
Draw(p, amount, randoms) ==
    /\ ret' = [op |-> "draw", pool |-> p, amount |-> amount, randoms |-> randoms,
               result |-> draw(pools[p].items, amount, randoms)]
    /\ UNCHANGED <<page, unicodeData, indexes, pools, calls, fs, loader>>

NextPool ==
    \/ \E w \in 0..MaxWeight :
           AddItem(1, [id |-> 64 + Len(pools[1].items) + 1, weight |-> w])
    \/ \E amount \in (0 - 1)..MaxAmount :
           \E randoms \in RandomsOf(pools[1].items, amount) : Draw(1, amount, randoms)

SpecPool == InitPool /\ [][NextPool]_vars

\* The sum of the weights of the first i items
RECURSIVE Cumulative(_, _)
Cumulative(items, i) == IF i = 0 THEN 0 ELSE Cumulative(items, i - 1) + items[i].weight

\* C1: draw(amount) on a non-empty pool of total weight > 0, with amount > 0,
\* returns amount items, the i-th being the first item in insertion order
\* whose cumulative weight exceeds the i-th random value.
C1_DrawIsRouletteWheel ==
    (/\ ret.op = "draw"
     /\ ret.amount > 0
     /\ Len(pools[ret.pool].items) > 0
     /\ TotalWeight(pools[ret.pool].items) > 0) =>
        LET items == pools[ret.pool].items
        IN  /\ Len(ret.result) = ret.amount
            /\ \A i \in 1..ret.amount :
                   \E k \in 1..Len(items) :
                       /\ ret.result[i] = items[k]
                       /\ Cumulative(items, k) > ret.randoms[i]
                       /\ \A j \in 1..(k - 1) : Cumulative(items, j) <= ret.randoms[i]

\* Two draws on a pool whose first item has weight 0: the first random value
\* falls on the second item, the second on the third
C1_Witness ==
    /\ ret.op = "draw"
    /\ ret.amount = 2
    /\ Len(pools[1].items) = 3
    /\ pools[1].items[1].weight = 0
    /\ pools[1].items[2].weight = 1
    /\ pools[1].items[3].weight = 1
    /\ ret.randoms = <<0, 1>>
    /\ ret.result = <<pools[1].items[2], pools[1].items[3]>>

\* C12: draw(amount) returns the empty list when the pool has no item,
\* whatever the amount, and when amount <= 0, whatever the pool.
C12_DrawNothing ==
    (/\ ret.op = "draw"
     /\ (Len(pools[ret.pool].items) = 0 \/ ret.amount <= 0)) =>
        ret.result = <<>>

\* draw() on a pool with no item, the amount being the default 1
C12_Witness ==
    /\ ret.op = "draw"
    /\ Len(pools[ret.pool].items) = 0
    /\ ret.amount = 1
    /\ ret.result = <<>>

\* ------------------------------------------ the loop of addUnicodeData, by line

\* Lines of UnicodeData.txt, and lines that are not of its grammar
LineLatinA == "0041;LATIN CAPITAL LETTER A;Lu;0;L;;;;;N;;;;0061;"

LineCJKFirst == "4E00;<CJK Ideograph, First>;Lo;0;L;;;;;N;;;;;"

LineCJKLast == "4E02;<CJK Ideograph, Last>;Lo;0;L;;;;;N;;;;;"

LineHangulFirst == "AC00;<Hangul Syllable, First>;Lo;0;L;;;;;N;;;;;"

LineHangulLast == "D7A3;<Hangul Syllable, Last>;Lo;0;L;;;;;N;;;;;"

LinePrivateFirst == "E000;<Private Use, First>;Co;0;L;;;;;N;;;;;"

LinePrivateLast == "F8FF;<Private Use, Last>;Co;0;L;;;;;N;;;;;"

LineControl == "0000;<control>;Cc;0;BN;;;;;N;NULL;;;;"

LineBlank == ""

LineComment == "# UnicodeData"

LineBadHex == "zz;NOT HEX;Lu;0;L;;;;;N;;;;;"

LineNoName == "0042"

UnicodeDataLines ==
    {LineLatinA, LineCJKFirst, LineCJKLast, LineHangulFirst, LineHangulLast,
     LinePrivateFirst, LinePrivateLast, LineControl, LineBlank, LineComment,
     LineBadHex, LineNoName}

\* text.split("\n") has at least one element
FilesOf(lines, max) == UNION {[1..n -> lines] : n \in 1..max}

\* The scan bounds of a call: the default (the whole plane) and a narrower
\* one that starts inside the CJK range and ends inside the Hangul range
ScanBounds == {<<0, 65535>>, <<19969, 55202>>}

InitLoader ==
    /\ fs \in [unicode : FilesOf(UnicodeDataLines, MaxLines), blocks : {<<>>}, cjk : {<<>>}]
    /\ indexes = <<EmptyIndex>>
    /\ loader = IdleLoader
    /\ unicodeData = 0
    /\ pools = <<>>
    /\ calls = <<>>
    /\ page = InitialPage
    /\ ret = [op |-> "none"]

\* addUnicodeData(rangeStart, rangeEnd) on indexes[1], up to the loop
CallAddUnicodeData(rangeStart, rangeEnd) ==
    /\ loader.status = "idle"
    /\ loader' = [status |-> "running", pos |-> 0, rangeFirst |-> 0,
                  rangeStart |-> rangeStart, rangeEnd |-> rangeEnd]
    /\ UNCHANGED <<page, unicodeData, indexes, pools, calls, fs, ret>>

\* One iteration of the loop; the call returns after the last line and
\* rejects when the iteration throws
AddUnicodeDataLine ==
    /\ loader.status = "running"
    /\ LET i  == loader.pos + 1
           st == ProcessLine([data |-> indexes[1].data, rangeFirst |-> loader.rangeFirst,
                              threw |-> FALSE],
                             fs.unicode[i], loader.rangeStart, loader.rangeEnd)
       IN  /\ indexes' = [indexes EXCEPT ![1].data = st.data]
           /\ loader' = [loader EXCEPT
                            !.pos = i,
                            !.rangeFirst = st.rangeFirst,
                            !.status = IF st.threw THEN "threw"
                                       ELSE IF i = Len(fs.unicode) THEN "returned"
                                       ELSE "running"]
    /\ UNCHANGED <<page, unicodeData, pools, calls, fs, ret>>

NextLoader ==
    \/ \E b \in ScanBounds : CallAddUnicodeData(b[1], b[2])
    \/ AddUnicodeDataLine

SpecLoader == InitLoader /\ [][NextLoader]_vars


\* ---------------------------------------------- claims on addUnicodeData

\* The line the next iteration of the loop takes
NextLine == fs.unicode[loader.pos + 1]

\* The loop reads a record from the line: the line is not a comment, its id
\* is a number inside the scan bound, and it has a name
ReadsRecord(line) ==
    LET r == parseCodePoint(line)
    IN  /\ ~StartsWith(line, "#")
        /\ r.id # NaN
        /\ loader.rangeStart <= r.id /\ r.id <= loader.rangeEnd
        /\ IsDefined(r.name)

ReadsFirst(line) == ReadsRecord(line) /\ EndsWith(parseCodePoint(line).name[1], "First>")

\* The position of the last "First>" record read before line i, or 0
PendingFirst(i) ==
    LET firsts == {j \in 1..(i - 1) : ReadsFirst(fs.unicode[j])}
    IN  IF firsts = {} THEN 0 ELSE CHOOSE j \in firsts : \A k \in firsts : k <= j

ExpandedTags == {"CJK Ideograph", "Hangul Syllable"}

\* The name the specification gives id in a range of the tag
ExpectedName(tag, id) ==
    IF tag = "Hangul Syllable"
    THEN ToUpperCase(tag \o " " \o getHangulSyllableName(id))
    ELSE ToUpperCase(tag \o " " \o ToString16(id))

\* The next iteration reads the "Last>" record of the tag after a "First>"
\* record was read
ClosesRange(tag) ==
    /\ loader.status = "running"
    /\ ReadsRecord(NextLine)
    /\ parseCodePoint(NextLine).name[1] = "<" \o tag \o ", Last>"
    /\ PendingFirst(loader.pos + 1) > 0

\* The ids F and L of the "First>" and of the "Last>" record of that range
FirstId == parseCodePoint(fs.unicode[PendingFirst(loader.pos + 1)]).id

LastId == parseCodePoint(NextLine).id

\* C2: when the loop reads a "Last>" record of a CJK or Hangul tag at id L
\* after a "First>" record at id F, the Index then holds a record for every
\* id of [F, L], named upper-case(tag + " " + hex(id)), or, for the Hangul
\* tag, upper-case(tag + " " + getHangulSyllableName(id)); it holds outside
\* [F, L] what it held before; no record is stored under a bracketed name.
\* The range 4E00..4E02 of the tag "CJK Ideograph" gives "CJK IDEOGRAPH 4E00",
\* "CJK IDEOGRAPH 4E01" and "CJK IDEOGRAPH 4E02".
C2_RangeExpanded ==
    [][\A tag \in ExpandedTags :
        ClosesRange(tag) =>
            LET old == indexes[1].data
                new == indexes'[1].data
                range == {id \in CodePoints : FirstId <= id /\ id <= LastId}
            IN  /\ \A id \in range :
                    /\ id \in DOMAIN new
                    /\ new[id].id = id
                    /\ new[id].name = Def(ExpectedName(tag, id))
                /\ \A id \in CodePoints \ range :
                    /\ id \in DOMAIN new <=> id \in DOMAIN old
                    /\ id \in DOMAIN old => new[id] = old[id]
                /\ \A id \in DOMAIN new : ~EndsWith(new[id].name[1], ">")
                /\ (tag = "CJK Ideograph" /\ FirstId = 19968 /\ LastId = 19970) =>
                    /\ new[19968].name = Def("CJK IDEOGRAPH 4E00")
                    /\ new[19969].name = Def("CJK IDEOGRAPH 4E01")
                    /\ new[19970].name = Def("CJK IDEOGRAPH 4E02")
      ]_vars

\* A CJK range and a Hangul range have been expanded
C2_Witness ==
    /\ loader.status = "returned"
    /\ fs.unicode = <<LineCJKFirst, LineCJKLast, LineLatinA>>
    /\ loader.rangeStart = 0 /\ loader.rangeEnd = 65535
    /\ DOMAIN indexes[1].data = {65, 19968, 19969, 19970}
    /\ indexes[1].data[19969].name = Def("CJK IDEOGRAPH 4E01")

\* C3: after addUnicodeData(rangeStart, rangeEnd) on an empty Index every
\* stored id is a number of [rangeStart, rangeEnd], the ids of an expanded
\* range included.
C3_StoredIdsWithinBound ==
    loader.status # "idle" =>
        \A id \in DOMAIN indexes[1].data :
            id # NaN /\ loader.rangeStart <= id /\ id <= loader.rangeEnd

\* A line that is not of the grammar of the code-point file
Malformed(line) ==
    \/ IsBlank(line)
    \/ ParseInt16(At(Split(line, ";"), 1)) = NaN
    \/ Len(Split(line, ";")) < 15

\* C4: a malformed line makes no exception leave addUnicodeData: the loop
\* stores nothing for it and goes on.
C4_MalformedLineSkipped ==
    [][(loader.status = "running" /\ Malformed(NextLine)) =>
            /\ loader'.status # "threw"
            /\ indexes'[1].data = indexes[1].data
      ]_vars


\* ------------------------------------- pairs of a tag that is not expanded

MaxPairLines == 4

PairLines ==
    {LineCJKFirst, LineCJKLast, LineHangulFirst, LineHangulLast,
     LinePrivateFirst, LinePrivateLast}

InitPairs ==
    /\ fs \in [unicode : FilesOf(PairLines, MaxPairLines), blocks : {<<>>}, cjk : {<<>>}]
    /\ indexes = <<EmptyIndex>>
    /\ loader = IdleLoader
    /\ unicodeData = 0
    /\ pools = <<>>
    /\ calls = <<>>
    /\ page = InitialPage
    /\ ret = [op |-> "none"]

SpecPairs == InitPairs /\ [][NextLoader]_vars

\* The tag of a "First>" or of a "Last>" name
TagOf(name) == IF EndsWith(name, "First>") THEN SliceNeg(name, 1, -8) ELSE StripTag(name)

\* The line is the "First>" or the "Last>" line of a tag that contains
\* neither "CJK" nor "Hangul"
UnexpandedPairLine(line) ==
    LET r == parseCodePoint(line)
    IN  /\ IsDefined(r.name)
        /\ EndsWith(r.name[1], "First>") \/ EndsWith(r.name[1], "Last>")
        /\ ~Includes(TagOf(r.name[1]), "CJK")
        /\ ~Includes(TagOf(r.name[1]), "Hangul")

\* The file without the lines of such pairs
WithoutUnexpandedPairs == SelectSeq(fs.unicode, LAMBDA line : ~UnexpandedPairLine(line))

\* Every "Last>" record of a CJK or Hangul tag the loop reads closes a range:
\* the line before it is the "First>" record of the same tag in that file
RangesClosed(lines) ==
    \A j \in 1..Len(lines) :
        (/\ ReadsRecord(lines[j])
         /\ EndsWith(parseCodePoint(lines[j]).name[1], "Last>")
         /\ ~UnexpandedPairLine(lines[j]))
        => /\ j > 1
           /\ ReadsRecord(lines[j - 1])
           /\ EndsWith(parseCodePoint(lines[j - 1]).name[1], "First>")
           /\ TagOf(parseCodePoint(lines[j - 1]).name[1]) = TagOf(parseCodePoint(lines[j]).name[1])

\* C15: a "First>" or "Last>" line of a tag that contains neither "CJK" nor
\* "Hangul" leaves the Index as it is: no placeholder record and no id of
\* the pair is stored when the loop reads it; and when the call returns on a
\* file whose CJK and Hangul ranges are closed, the Index is the one the
\* same file gives with the lines of such pairs taken out, wherever the
\* CJK and Hangul ranges stand relative to the pair.
C15_UnexpandedPairAddsNothing ==
    [][loader.status = "running" =>
          /\ (ReadsRecord(NextLine) /\ UnexpandedPairLine(NextLine)) =>
                indexes'[1].data = indexes[1].data
          /\ (loader'.status = "returned" /\ RangesClosed(fs.unicode)
                  /\ RangesClosed(WithoutUnexpandedPairs)) =>
                indexes'[1].data =
                    addUnicodeData(EmptyIndex.data, WithoutUnexpandedPairs,
                                   loader.rangeStart, loader.rangeEnd).data
      ]_vars

\* A private-use pair has been read after a CJK range: the Index holds the
\* three ideographs and nothing of E000..F8FF
C15_Witness ==
    /\ loader.status = "returned"
    /\ fs.unicode = <<LineCJKFirst, LineCJKLast, LinePrivateFirst, LinePrivateLast>>
    /\ loader.rangeStart = 0 /\ loader.rangeEnd = 65535
    /\ DOMAIN indexes[1].data = {19968, 19969, 19970}


\* --------------------------------- initUnicodeData, the page and the pools

MaxCalls == 2

MaxPools == 1

MaxInitializeCalls == 2

\* The ids of a set in ascending order: the order of the loop of initialize
RECURSIVE Ascending(_)
Ascending(ids) ==
    IF ids = {} THEN <<>>
    ELSE LET least == CHOOSE i \in ids : \A j \in ids : i <= j
         IN  <<least>> \o Ascending(ids \ {least})

\* The items initialize() adds: one of weight 1 for each id of 0..65535 the
\* Index has a record for
Seeded(index) ==
    LET ids == Ascending({i \in Observed(0, 65535) : IsDefined(getCodePoint(index, i))})
    IN  [k \in 1..Len(ids) |-> [id |-> ids[k], weight |-> 1]]

\* UnicodeBMPPool.initialize(): the loop adds to this.items
initialize(pool, index) ==
    [pool EXCEPT !.items = @ \o Seeded(index),
                 !.initializeCalls = @ + 1]

LineBasicLatin == "0000..007F; Basic Latin"

LineCJKBlock == "4E00..9FFF; CJK Unified Ideographs"

LineNoBlockName == "0080"

LineMandarin == "U+4E00\tkMandarin\tyi"

\* The three files as the server has them
Files ==
    [unicode : {<<LineLatinA, LineCJKFirst, LineCJKLast>>, <<LineLatinA, LineNoName>>},
     blocks  : {<<LineBasicLatin, LineCJKBlock>>, <<LineNoBlockName>>},
     cjk     : {<<LineMandarin>>}]

Init ==
    /\ fs \in Files
    /\ unicodeData = 0
    /\ indexes = <<>>
    /\ pools = <<>>
    /\ calls = <<>>
    /\ loader = IdleLoader
    /\ page = InitialPage
    /\ ret = [op |-> "none"]

\* (In a call's record, before and started are history: the Index the loader
\* in flight was called on, as it was at the call and as the loader's code
\* up to its await left it.)
\* initUnicodeData() up to its first await: a new Index is assigned to the
\* module-level variable and addUnicodeData() is called on it, which awaits
\* the file
InitUnicodeData ==
    /\ Len(calls) < MaxCalls
    /\ indexes' = Append(indexes, EmptyIndex)
    /\ unicodeData' = Len(indexes) + 1
    /\ calls' = Append(calls, [pc |-> "addUnicodeData", this |-> Len(indexes) + 1, pool |-> 0,
                                before |-> EmptyIndex, started |-> EmptyIndex])
    /\ ret' = [op |-> "initUnicodeData"]
    /\ UNCHANGED <<page, pools, fs, loader>>

\* The file arrives: the loop of addUnicodeData runs on this; when it
\* returns, initUnicodeData calls loadBlocks() on the Index the module-level
\* variable holds now, which empties its blocks and awaits the file
AddUnicodeDataDone(c) ==
    /\ calls[c].pc = "addUnicodeData"
    /\ LET this == calls[c].this
           st   == addUnicodeData(indexes[this].data, fs.unicode, 0, 65535)
           done == [indexes EXCEPT ![this].data = st.data,
                                   ![this].loaded = IF st.threw THEN @ ELSE @ \cup {"addUnicodeData"}]
       IN  IF st.threw
           THEN /\ indexes' = done
                /\ calls' = [calls EXCEPT ![c].pc = "rejected"]
           ELSE /\ indexes' = [done EXCEPT ![unicodeData].blocks = <<>>]
                /\ calls' = [calls EXCEPT ![c].pc = "loadBlocks", ![c].this = unicodeData,
                                          ![c].before = done[unicodeData],
                                          ![c].started = [done[unicodeData] EXCEPT !.blocks = <<>>]]
    /\ ret' = [op |-> "none"]
    /\ UNCHANGED <<page, unicodeData, pools, fs, loader>>

\* The file arrives: the loop of loadBlocks runs on this; when it returns,
\* initUnicodeData calls loadCJKData() on the Index the module-level variable
\* holds now, which empties its cjkData and awaits the file
LoadBlocksDone(c) ==
    /\ calls[c].pc = "loadBlocks"
    /\ LET this == calls[c].this
           st   == loadBlocks(indexes[this].blocks, fs.blocks)
           done == [indexes EXCEPT ![this].blocks = st.blocks,
                                   ![this].loaded = IF st.threw THEN @ ELSE @ \cup {"loadBlocks"}]
       IN  IF st.threw
           THEN /\ indexes' = done
                /\ calls' = [calls EXCEPT ![c].pc = "rejected"]
           ELSE /\ indexes' = [done EXCEPT ![unicodeData].cjkData = <<>>]
                /\ calls' = [calls EXCEPT ![c].pc = "loadCJKData", ![c].this = unicodeData,
                                          ![c].before = done[unicodeData],
                                          ![c].started = [done[unicodeData] EXCEPT !.cjkData = <<>>]]
    /\ ret' = [op |-> "none"]
    /\ UNCHANGED <<page, unicodeData, pools, fs, loader>>

\* The file arrives: the loop of loadCJKData runs on this, and
\* initUnicodeData returns the module-level variable
LoadCJKDataDone(c) ==
    /\ calls[c].pc = "loadCJKData"
    /\ LET this == calls[c].this
       IN  indexes' = [indexes EXCEPT ![this].cjkData = loadCJKData(@, fs.cjk),
                                      ![this].loaded = @ \cup {"loadCJKData"}]
    /\ calls' = [calls EXCEPT ![c].pc = "returned"]
    /\ ret' = [op |-> "none"]
    /\ UNCHANGED <<page, unicodeData, pools, fs, loader>>

\* The retrieval of the file fails (readFileSync throws, fetch rejects): the
\* loader in flight rejects without reaching its loop, and initUnicodeData
\* with it
RetrievalFails(c) ==
    /\ calls[c].pc \in {"addUnicodeData", "loadBlocks", "loadCJKData"}
    /\ calls' = [calls EXCEPT ![c].pc = "rejected"]
    /\ ret' = [op |-> "retrievalFailed", call |-> c, loader |-> calls[c].pc]
    /\ UNCHANGED <<page, unicodeData, indexes, pools, fs, loader>>

\* new UnicodeBMPPool(unicodeDataParam); param = 0 is the call with no argument
ConstructPool(param) ==
    /\ Len(pools) < MaxPools
    /\ pools' = Append(pools, NewPool(param, unicodeData, Len(indexes) + 1))
    /\ indexes' = IF param = 0 /\ unicodeData = 0 THEN Append(indexes, EmptyIndex) ELSE indexes
    /\ ret' = [op |-> "newPool", param |-> param, pool |-> Len(pools) + 1]
    /\ UNCHANGED <<page, unicodeData, calls, fs, loader>>

\* pool.initialize(), whose body has no await
Initialize(p) ==
    /\ pools[p].initializeCalls < MaxInitializeCalls
    /\ pools' = [pools EXCEPT ![p] = initialize(@, indexes[@.unicodeData])]
    /\ ret' = [op |-> "initialize", pool |-> p]
    /\ UNCHANGED <<page, unicodeData, indexes, calls, fs, loader>>

\* The page's effect after initUnicodeData() has resolved: it constructs a
\* pool with no argument and calls initialize() on it
PageNewPool(c) ==
    /\ calls[c].pc = "returned"
    /\ pools' = Append(pools, initialize(NewPool(0, unicodeData, 0), indexes[unicodeData]))
    /\ calls' = [calls EXCEPT ![c].pc = "initialize", ![c].pool = Len(pools) + 1]
    /\ ret' = [op |-> "newPool", param |-> 0, pool |-> Len(pools) + 1]
    /\ UNCHANGED <<page, unicodeData, indexes, fs, loader>>

\* setPool(newPool); setIsLoading(false)
PageSetPool(c) ==
    /\ calls[c].pc = "initialize"
    /\ calls' = [calls EXCEPT ![c].pc = "ready"]
    /\ page' = [page EXCEPT !.pool = calls[c].pool, !.isLoading = FALSE]
    /\ ret' = [op |-> "none"]
    /\ UNCHANGED <<unicodeData, indexes, pools, fs, loader>>

\* The catch block of the page's effect
PageCatch(c) ==
    /\ calls[c].pc = "rejected"
    /\ calls' = [calls EXCEPT ![c].pc = "failed"]
    /\ page' = [page EXCEPT !.character = <<"\\u274c">>,
                            !.characterName = <<"Failed to load Unicode data">>,
                            !.characterId = <<"Error">>,
                            !.isLoading = FALSE]
    /\ ret' = [op |-> "none"]
    /\ UNCHANGED <<unicodeData, indexes, pools, fs, loader>>

Next ==
    \/ InitUnicodeData
    \/ \E c \in 1..Len(calls) : AddUnicodeDataDone(c)
    \/ \E c \in 1..Len(calls) : LoadBlocksDone(c)
    \/ \E c \in 1..Len(calls) : LoadCJKDataDone(c)
    \/ \E c \in 1..Len(calls) : RetrievalFails(c)
    \/ \E c \in 1..Len(calls) : PageNewPool(c)
    \/ \E c \in 1..Len(calls) : PageSetPool(c)
    \/ \E c \in 1..Len(calls) : PageCatch(c)
    \/ \E param \in 0..Len(indexes) : ConstructPool(param)
    \/ \E p \in 1..Len(pools) : Initialize(p)

Spec == Init /\ [][Next]_vars

\* --------------------------------------- claims on the pools and the Index

\* The positions of the items of the pool that have the id
ItemsOf(pool, id) == {k \in 1..Len(pool.items) : pool.items[k].id = id}

\* C6: after a call of initialize() on a pool whose Index addUnicodeData has
\* populated, whatever the number of calls before it, the pool has exactly
\* one item for each id of 0..0xFFFF the Index has a record for, every item
\* has weight 1, and there is no item of another id.
C6_OneItemPerCodePoint ==
    (/\ ret.op = "initialize"
     /\ "addUnicodeData" \in indexes[pools[ret.pool].unicodeData].loaded) =>
        LET pool  == pools[ret.pool]
            index == indexes[pool.unicodeData]
        IN  /\ \A id \in Observed(0, 65535) :
                   IsDefined(getCodePoint(index, id)) => Cardinality(ItemsOf(pool, id)) = 1
            /\ \A k \in 1..Len(pool.items) :
                   /\ pool.items[k].weight = 1
                   /\ pool.items[k].id \in Observed(0, 65535)
                   /\ IsDefined(getCodePoint(index, pool.items[k].id))

\* The records of the data file, when reading it does not throw
FileData == addUnicodeData(<<>>, fs.unicode, 0, 65535)

\* The calls of initialize() made on pool p before the step
CallsBefore(p) == IF p <= Len(pools) THEN pools[p].initializeCalls ELSE 0

\* C7: a call of initialize() on a pool that was constructed with no Index
\* argument while there was no module-level Index leaves the pool's own Index
\* holding the records of the data file and the pool holding an item for each
\* of them; a call on a pool that was given an Index or adopted the
\* module-level one changes no Index.
C7_InitializeLoadsOwnIndex ==
    [][\A p \in 1..Len(pools') :
          pools'[p].initializeCalls > CallsBefore(p) =>
              IF pools'[p].unicodeDataInitialized
              THEN indexes' = indexes
              ELSE ~FileData.threw =>
                       /\ indexes'[pools'[p].unicodeData].data = FileData.data
                       /\ \A id \in DOMAIN FileData.data : ItemsOf(pools'[p], id) # {}
      ]_vars

Loaders == {"addUnicodeData", "loadBlocks", "loadCJKData"}

\* C8: a pool constructed with no Index argument that adopts the module-level
\* Index and marks it initialized does so only when addUnicodeData,
\* loadBlocks and loadCJKData have all completed on that Index.
C8_AdoptedIndexIsLoaded ==
    (/\ ret.op = "newPool"
     /\ ret.param = 0
     /\ pools[ret.pool].unicodeDataInitialized) =>
        indexes[pools[ret.pool].unicodeData].loaded = Loaders

\* ------------------------------------------------ the blocks and getBlock

LineOverlap == "0041..0042; AB"

LineBadRange == "zz..00FF; Bad"

\* Lines of Blocks.txt, and lines that are not of its grammar
BlockLines ==
    {LineBasicLatin, LineOverlap, LineCJKBlock, LineComment, LineBlank, LineBadRange,
     LineNoBlockName}

\* The points getBlock is asked for: the ends of the blocks and their neighbours
BlockPoints == {0, 64, 65, 66, 67, 127, 128, 255, 19967, 19968, 40959, 40960}

InitBlocks ==
    /\ fs \in [unicode : {<<LineLatinA>>}, blocks : FilesOf(BlockLines, MaxLines),
               cjk : {<<LineMandarin>>}]
    /\ unicodeData = 0
    /\ indexes = <<>>
    /\ pools = <<>>
    /\ calls = <<>>
    /\ loader = IdleLoader
    /\ page = InitialPage
    /\ ret = [op |-> "none"]

\* A single call of initUnicodeData()
InitUnicodeDataOnce == Len(calls) = 0 /\ InitUnicodeData

\* index.getBlock(codePoint)
GetBlock(ix, codePoint) ==
    /\ ret' = [op |-> "getBlock", index |-> ix, codePoint |-> codePoint,
               result |-> getBlock(indexes[ix], codePoint)]
    /\ UNCHANGED <<page, unicodeData, indexes, pools, calls, fs, loader>>

NextBlocks ==
    \/ InitUnicodeDataOnce
    \/ \E c \in 1..Len(calls) : AddUnicodeDataDone(c)
    \/ \E c \in 1..Len(calls) : LoadBlocksDone(c)
    \/ \E c \in 1..Len(calls) : LoadCJKDataDone(c)
    \/ \E ix \in 1..Len(indexes) : \E codePoint \in BlockPoints : GetBlock(ix, codePoint)

SpecBlocks == InitBlocks /\ [][NextBlocks]_vars

\* The positions of the blocks whose range, a pair of numbers, has the point
Containing(blocks, codePoint) ==
    {i \in 1..Len(blocks) :
        /\ blocks[i].start # NaN /\ blocks[i].end # NaN
        /\ blocks[i].start <= codePoint /\ codePoint <= blocks[i].end}

\* C9: getBlock(codePoint) returns absent when the Index has no block whose
\* range contains the point (in particular when it has no block), and else
\* the first block, in the order of the file, with start <= codePoint <= end.
C9_GetBlockFirstContaining ==
    ret.op = "getBlock" =>
        LET blocks == indexes[ret.index].blocks
            among  == Containing(blocks, ret.codePoint)
        IN  IF among = {} THEN ret.result = Undefined
            ELSE ret.result = Def(blocks[CHOOSE i \in among : \A j \in among : i <= j])

\* The point 0x42 is the end of the first block and inside the second: the
\* first is returned
C9_Witness ==
    /\ ret.op = "getBlock"
    /\ ret.codePoint = 66
    /\ Len(indexes[ret.index].blocks) = 2
    /\ indexes[ret.index].blocks[1].name = Def(" AB")
    /\ indexes[ret.index].blocks[1].end = 66
    /\ indexes[ret.index].blocks[2].name = Def(" Basic Latin")
    /\ ret.result = Def(indexes[ret.index].blocks[1])

\* ------------------------------------------- the readings and getCardData

LineDefinition == "U+4E00\tkDefinition\tone"

LineMandarinNext == "U+4E01\tkMandarin\tding"

LineNoField == "U+4E00"

\* Lines of CJKData.txt, and lines that are not of its grammar
CJKLines ==
    {LineMandarin, LineDefinition, LineMandarinNext, LineComment, LineBlank, LineNoField}

LineNamelessBlock == "0041..0041;"

\* The ids getCardData is asked for
CardIds == {65, 66, 19968, 19969}

InitCard ==
    /\ fs \in [unicode : {<<LineLatinA, LineCJKFirst, LineCJKLast>>},
               blocks  : {<<LineCJKBlock>>, <<LineComment>>, <<LineNamelessBlock>>},
               cjk     : FilesOf(CJKLines, MaxLines)]
    /\ unicodeData = 0
    /\ indexes = <<>>
    /\ pools = <<>>
    /\ calls = <<>>
    /\ loader = IdleLoader
    /\ page = InitialPage
    /\ ret = [op |-> "none"]

\* index.getCardData(id)
GetCardData(ix, id) ==
    /\ ret' = [op |-> "getCardData", index |-> ix, id |-> id,
               result |-> getCardData(indexes[ix], id)]
    /\ UNCHANGED <<page, unicodeData, indexes, pools, calls, fs, loader>>

\* index.getCJKReading(id)
GetCJKReading(ix, id) ==
    /\ ret' = [op |-> "getCJKReading", index |-> ix, id |-> id,
               result |-> getCJKReading(indexes[ix], id)]
    /\ UNCHANGED <<page, unicodeData, indexes, pools, calls, fs, loader>>

NextCard ==
    \/ InitUnicodeDataOnce
    \/ \E c \in 1..Len(calls) : AddUnicodeDataDone(c)
    \/ \E c \in 1..Len(calls) : LoadBlocksDone(c)
    \/ \E c \in 1..Len(calls) : LoadCJKDataDone(c)
    \/ \E ix \in 1..Len(indexes) : \E id \in CardIds : GetCardData(ix, id)

SpecCard == InitCard /\ [][NextCard]_vars

\* The lines the description is to have for the record, the block and the
\* readings of an id
ExpectedLines(codePointData, block, cjkReadings) ==
    <<"Name: " \o codePointData.name[1],
      "Block: " \o (IF IsDefined(block) THEN block[1].name[1] ELSE "Unknown")>>
    \o [i \in 1..Len(cjkReadings) |->
           SliceFrom(cjkReadings[i].field[1], 1) \o ": " \o cjkReadings[i].text[1]]

\* C5: getCardData(id) returns null when the Index has no record for id;
\* else the description is the Name line, then the Block line ("Unknown"
\* when no block has the id), then one line "<field without its first
\* character>: <text>" for each reading of the id, in their order, the lines
\* being separated by line breaks, and nothing else: two lines when the id
\* has no reading.
C5_DescriptionLines ==
    ret.op = "getCardData" =>
        LET index         == indexes[ret.index]
            codePointData == getCodePoint(index, ret.id)
        IN  IF ~IsDefined(codePointData) THEN ret.result.kind = "null"
            ELSE /\ ret.result.kind = "card"
                 /\ Split(ret.result.description, "\n") =
                        ExpectedLines(codePointData[1], getBlock(index, ret.id),
                                      getCJKReading(index, ret.id))

\* The ids getCJKReading is asked for: 0x41 has no line in any file
ReadingIds == {65, 19968, 19969}

InitReadings ==
    /\ fs \in [unicode : {<<LineLatinA, LineCJKFirst, LineCJKLast>>},
               blocks  : {<<LineCJKBlock>>},
               cjk     : FilesOf(CJKLines, MaxLines)]
    /\ unicodeData = 0
    /\ indexes = <<>>
    /\ pools = <<>>
    /\ calls = <<>>
    /\ loader = IdleLoader
    /\ page = InitialPage
    /\ ret = [op |-> "none"]

NextReadings ==
    \/ InitUnicodeDataOnce
    \/ \E c \in 1..Len(calls) : AddUnicodeDataDone(c)
    \/ \E c \in 1..Len(calls) : LoadBlocksDone(c)
    \/ \E c \in 1..Len(calls) : LoadCJKDataDone(c)
    \/ \E ix \in 1..Len(indexes) : \E id \in ReadingIds : GetCJKReading(ix, id)

SpecReadings == InitReadings /\ [][NextReadings]_vars

\* The lines of the reading file that are lines of the code point id
LinesOf(id) ==
    LET IsOf(line) == ~IsSkipped(line) /\ parseCJKReading(line).id = id
    IN  SelectSeq(fs.cjk, IsOf)

\* C14: once loadCJKData has run on an Index, getCJKReading(id) returns the
\* readings of the lines of the file that are lines of id, one for each
\* line and in the order of the lines: the empty list when id has no line.
C14_ReadingsInFileOrder ==
    (/\ ret.op = "getCJKReading"
     /\ "loadCJKData" \in indexes[ret.index].loaded) =>
        ret.result = [i \in 1..Len(LinesOf(ret.id)) |->
                         parseCJKReading(LinesOf(ret.id)[i]).reading]

\* The readings of 0x4E00 when a line of 0x4E01 stands between its two lines
C14_Witness ==
    /\ ret.op = "getCJKReading"
    /\ "loadCJKData" \in indexes[ret.index].loaded
    /\ fs.cjk = <<LineMandarin, LineMandarinNext, LineDefinition>>
    /\ ret.id = 19968
    /\ ret.result = <<[field |-> Def("kMandarin"), text |-> Def("yi")],
                      [field |-> Def("kDefinition"), text |-> Def("one")]>>

\* --------------------------------------------------- getHangulSyllableName

HangulMargin == 2

\* The ids getHangulSyllableName is called with: the syllables, and the ids
\* next to them
HangulIds == (HangulBase - HangulMargin)..(HangulLast + HangulMargin)

InitHangul ==
    /\ fs = [unicode |-> <<>>, blocks |-> <<>>, cjk |-> <<>>]
    /\ unicodeData = 0
    /\ indexes = <<EmptyIndex>>
    /\ pools = <<>>
    /\ calls = <<>>
    /\ loader = IdleLoader
    /\ page = InitialPage
    /\ ret = [op |-> "none"]

\* index.getHangulSyllableName(id), called as the loop of addRange calls it:
\* for an id, and then for the next one
GetHangulSyllableName(id) ==
    /\ IF ret.op = "none" THEN TRUE ELSE id = ret.id + 1
    /\ ret' = [op |-> "getHangulSyllableName", id |-> id, result |-> getHangulSyllableName(id)]
    /\ UNCHANGED <<page, unicodeData, indexes, pools, calls, fs, loader>>

NextHangul == \E id \in HangulIds : GetHangulSyllableName(id)

SpecHangul == InitHangul /\ [][NextHangul]_vars

\* C10: for an id of 0xAC00..0xD7A3 and order = id - 0xAC00, the three
\* indexes order div 588, (order mod 588) div 28 and order mod 28 are inside
\* the tables of 19 initials, 21 vowels and 28 finals, and
\* getHangulSyllableName(id) is the initial, the vowel and the final at these
\* indexes, one after the other; 0xAC00 gives "ga" and 0xD7A3 gives "hih".
C10_HangulSyllableName ==
    (ret.op = "getHangulSyllableName" /\ 44032 <= ret.id /\ ret.id <= 55203) =>
        LET order == ret.id - 44032
            i     == order \div 588
            v     == (order % 588) \div 28
            f     == order % 28
        IN  /\ Len(initials) = 19 /\ Len(vowels) = 21 /\ Len(finals) = 28
            /\ i \in 0..18 /\ v \in 0..20 /\ f \in 0..27
            /\ ret.result = initials[i + 1] \o vowels[v + 1] \o finals[f + 1]
            /\ ret.id = 44032 => ret.result = "ga"
            /\ ret.id = 55203 => ret.result = "hih"

\* The name of the last syllable
C10_Witness ==
    /\ ret.op = "getHangulSyllableName"
    /\ ret.id = 55203
    /\ ret.result = "hih"

\* ------------------------------------------------- the colour of a block

MaxNameLen == 6

NameChars == {" ", "A", "z"}

\* The names of at most n characters of NameChars
RECURSIVE NamesUpTo(_)
NamesUpTo(n) ==
    IF n = 0 THEN {""}
    ELSE LET shorter == NamesUpTo(n - 1)
         IN  shorter \cup {c \o name : c \in NameChars, name \in shorter}

\* A block file of one line for each name
InitColor ==
    /\ fs \in [unicode : {<<LineLatinA>>},
               blocks  : {<<"0000..007F;" \o name>> : name \in NamesUpTo(MaxNameLen)},
               cjk     : {<<LineMandarin>>}]
    /\ unicodeData = 0
    /\ indexes = <<>>
    /\ pools = <<>>
    /\ calls = <<>>
    /\ loader = IdleLoader
    /\ page = InitialPage
    /\ ret = [op |-> "none"]

NextColor ==
    \/ InitUnicodeDataOnce
    \/ \E c \in 1..Len(calls) : AddUnicodeDataDone(c)
    \/ \E c \in 1..Len(calls) : LoadBlocksDone(c)
    \/ \E c \in 1..Len(calls) : LoadCJKDataDone(c)

SpecColor == InitColor /\ [][NextColor]_vars

\* H mod 0xFFFFFF for the polynomial hash H of the name that continues from
\* a hash of residue h: hash = hash * 31 + charCode
RECURSIVE PolynomialMod(_, _)
PolynomialMod(h, name) ==
    IF name = "" THEN h
    ELSE PolynomialMod(((h * 31) + CharCodeOf[CharAt(name, 1)]) % 16777215, Tail(name))

\* C11: the colour of every block loadBlocks stores is "#" followed by the
\* six hexadecimal digits of H mod 0xFFFFFF, H being the polynomial hash of
\* the block's name: from 0, hash = hash * 31 + charCode for each character.
C11_ColorIsPolynomialHash ==
    \A ix \in 1..Len(indexes) :
        \A i \in 1..Len(indexes[ix].blocks) :
            LET block == indexes[ix].blocks[i]
            IN  /\ Len(block.color) = 7
                /\ block.color =
                       "#" \o PadStart0(ToString16(PolynomialMod(0, block.name[1])), 6)

\* ------------------------------------------- a retrieval that fails

\* Every record, block and reading of the Index before is in the Index index
StillHolds(index, before) ==
    /\ \A id \in DOMAIN before.data :
           id \in DOMAIN index.data /\ index.data[id] = before.data[id]
    /\ \A i \in 1..Len(before.blocks) :
           \E j \in 1..Len(index.blocks) : index.blocks[j] = before.blocks[i]
    /\ \A id \in DOMAIN before.cjkData :
           /\ id \in DOMAIN index.cjkData
           /\ \A i \in 1..Len(before.cjkData[id].readings) :
                  \E j \in 1..Len(index.cjkData[id].readings) :
                      index.cjkData[id].readings[j] = before.cjkData[id].readings[i]

\* C13: when the retrieval of the file fails in addUnicodeData, loadBlocks or
\* loadCJKData, the call is rejected, and every record, block and reading the
\* Index had when the loader was called is in the Index as the loader leaves
\* it.
C13_FailedLoadKeepsIndex ==
    ret.op = "retrievalFailed" =>
        /\ calls[ret.call].pc = "rejected"
        /\ StillHolds(calls[ret.call].started, calls[ret.call].before)


\* ------------------------------------------------- handleDraw of the page

\* pool.draw(50)
DisplayAmount == 50

\* for (let i = 0; i < 50; i++)
AnimationFrames == 50

\* The random values of the draw of the animation: one value at every draw,
\* or the values in turn
DisplayRandoms(items) ==
    IF Len(items) = 0 THEN {<<>>}
    ELSE {[k \in 1..DisplayAmount |-> v] : v \in RandomValues(items)}
         \cup {[k \in 1..DisplayAmount |-> (k - 1) % TotalWeight(items)]}

\* A press of the Draw button, which is disabled while isLoading or
\* isDrawing: handleDraw up to the first await of its loop.  It returns at
\* once when there is no pool.
HandleDraw(randoms) ==
    /\ ~page.isLoading /\ ~page.isDrawing
    /\ page.pc = "idle"
    /\ page' = IF page.pool = 0 THEN page
               ELSE [page EXCEPT
                        !.isDrawing = TRUE,
                        !.isAnimating = TRUE,
                        !.characterName = <<"??????????">>,
                        !.characterId = <<"U+????">>,
                        !.cardColor = <<"#555555">>,
                        !.cardDescription = <<"">>,
                        !.randomDisplay = draw(pools[page.pool].items, DisplayAmount, randoms),
                        !.pc = "animating",
                        !.i = 0]
    /\ ret' = [op |-> "handleDraw", started |-> page.pool # 0]
    /\ UNCHANGED <<unicodeData, indexes, pools, calls, fs, loader>>

\* The end of handleDraw after its loop: result = pool.draw()[0] is shown,
\* an item of the pool having an id and a weight and no other property
Shown(pg, result) ==
    IF IsDefined(result)
    THEN [pg EXCEPT
             !.character = Undefined,
             !.characterName = Undefined,
             !.characterId =
                 <<"U+" \o PadStart0(ToUpperCase(ToString16(result[1].id)), 4)>>,
             !.cardColor = Undefined,
             !.cardDescription = Undefined,
             !.isAnimating = FALSE,
             !.isDrawing = FALSE,
             !.pc = "idle"]
    ELSE [pg EXCEPT
             !.character = <<"?">>,
             !.characterName = <<"No result">>,
             !.characterId = <<"\\u2014">>,
             !.cardDescription = <<"">>,
             !.isAnimating = FALSE,
             !.isDrawing = FALSE,
             !.pc = "idle"]

\* The timer of the loop fires: setCharacter(randomDisplay[i].char), which
\* throws a TypeError when randomDisplay has no element i, and handleDraw
\* rejects; after the last frame handleDraw runs to its end, random being
\* the random value of pool.draw()
HandleDrawTimeout(random) ==
    /\ page.pc = "animating"
    /\ LET entry == At(page.randomDisplay, page.i + 1)
           shown == [page EXCEPT !.character = Undefined, !.i = @ + 1]
           items == pools[page.pool].items
       IN  page' = IF ~IsDefined(entry) THEN [page EXCEPT !.pc = "rejected"]
                   ELSE IF shown.i < AnimationFrames THEN shown
                   ELSE Shown(shown, At(draw(items, 1, <<random>>), 1))
    /\ ret' = [op |-> "timeout"]
    /\ UNCHANGED <<unicodeData, indexes, pools, calls, fs, loader>>

\* The timer of a handleDraw in flight fires
TimerFires ==
    /\ page.pc = "animating"
    /\ \E random \in RandomValues(pools[page.pool].items) : HandleDrawTimeout(random)

\* The code-point file as the server has it, or a file with no record
InitPage ==
    /\ fs \in [unicode : {<<LineLatinA, LineCJKFirst, LineCJKLast>>, <<LineComment>>},
               blocks  : {<<LineBasicLatin>>},
               cjk     : {<<LineMandarin>>}]
    /\ unicodeData = 0
    /\ indexes = <<>>
    /\ pools = <<>>
    /\ calls = <<>>
    /\ loader = IdleLoader
    /\ page = InitialPage
    /\ ret = [op |-> "none"]

NextPage ==
    \/ InitUnicodeDataOnce
    \/ \E c \in 1..Len(calls) : AddUnicodeDataDone(c)
    \/ \E c \in 1..Len(calls) : LoadBlocksDone(c)
    \/ \E c \in 1..Len(calls) : LoadCJKDataDone(c)
    \/ \E c \in 1..Len(calls) : RetrievalFails(c)
    \/ \E c \in 1..Len(calls) : PageNewPool(c)
    \/ \E c \in 1..Len(calls) : PageSetPool(c)
    \/ \E c \in 1..Len(calls) : PageCatch(c)
    \/ \E randoms \in (IF page.pool = 0 THEN {<<>>}
                        ELSE DisplayRandoms(pools[page.pool].items)) : HandleDraw(randoms)
    \/ TimerFires

\* A timer that was set fires
SpecPage == InitPage /\ [][NextPage]_vars /\ WF_vars(TimerFires)

\* C16: every execution of handleDraw that sets isDrawing to true sets it
\* back to false later on, so that the Draw button is enabled again; this
\* for every pool the page holds after its initialisation, a pool with no
\* item included.
C16_DrawingEnds == page.isDrawing ~> ~page.isDrawing


====
